---- MODULE Spec2Model ----
(***************************************************************************)
(* Padel visit schedule: the Russian date/time parser and the visit store  *)
(* of src/src/schedule_manager.py, with the /schedule and /list handlers   *)
(* of src/src/telegram_bot.py.                                             *)
(*                                                                         *)
(* A text is a sequence of Unicode code points (Python str), so that the   *)
(* substring searches and regular expressions of the parser are modelled   *)
(* on the characters themselves.  Transliterations are given in comments.  *)
(* A datetime is a record [year, month, day, hour, minute, second]; all    *)
(* datetimes of the program carry the same fixed +03:00 offset.            *)
(***************************************************************************)
EXTENDS Integers, Sequences, FiniteSets, TLC

\* Python's None, for every Optional[...] of the source.
None == [none |-> TRUE]

(***************************************************************************)
(* Lookup tables of ScheduleManager.__init__, in dict insertion order.     *)
(***************************************************************************)
russian_months ==
    << <<<<1103, 1085, 1074, 1072, 1088, 1103>>, 1>>,   \* yanvarya
       <<<<1103, 1085, 1074, 1072, 1088, 1100>>, 1>>,   \* yanvar'
       <<<<1092, 1077, 1074, 1088, 1072, 1083, 1103>>, 2>>,   \* fevralya
       <<<<1092, 1077, 1074, 1088, 1072, 1083, 1100>>, 2>>,   \* fevral'
       <<<<1084, 1072, 1088, 1090, 1072>>, 3>>,   \* marta
       <<<<1084, 1072, 1088, 1090>>, 3>>,   \* mart
       <<<<1072, 1087, 1088, 1077, 1083, 1103>>, 4>>,   \* aprelya
       <<<<1072, 1087, 1088, 1077, 1083, 1100>>, 4>>,   \* aprel'
       <<<<1084, 1072, 1103>>, 5>>,   \* maya
       <<<<1084, 1072, 1081>>, 5>>,   \* maj
       <<<<1080, 1102, 1085, 1103>>, 6>>,   \* iyunya
       <<<<1080, 1102, 1085, 1100>>, 6>>,   \* iyun'
       <<<<1080, 1102, 1083, 1103>>, 7>>,   \* iyulya
       <<<<1080, 1102, 1083, 1100>>, 7>>,   \* iyul'
       <<<<1072, 1074, 1075, 1091, 1089, 1090, 1072>>, 8>>,   \* avgusta
       <<<<1072, 1074, 1075, 1091, 1089, 1090>>, 8>>,   \* avgust
       <<<<1089, 1077, 1085, 1090, 1103, 1073, 1088, 1103>>, 9>>,   \* sentyabrya
       <<<<1089, 1077, 1085, 1090, 1103, 1073, 1088, 1100>>, 9>>,   \* sentyabr'
       <<<<1086, 1082, 1090, 1103, 1073, 1088, 1103>>, 10>>,   \* oktyabrya
       <<<<1086, 1082, 1090, 1103, 1073, 1088, 1100>>, 10>>,   \* oktyabr'
       <<<<1085, 1086, 1103, 1073, 1088, 1103>>, 11>>,   \* noyabrya
       <<<<1085, 1086, 1103, 1073, 1088, 1100>>, 11>>,   \* noyabr'
       <<<<1076, 1077, 1082, 1072, 1073, 1088, 1103>>, 12>>,   \* dekabrya
       <<<<1076, 1077, 1082, 1072, 1073, 1088, 1100>>, 12>> >>   \* dekabr'
russian_weekdays ==
    << <<<<1087, 1086, 1085, 1077, 1076, 1077, 1083, 1100, 1085, 1080, 1082>>, 0>>,   \* ponedel'nik
       <<<<1087, 1086, 1085, 1077, 1076, 1077, 1083, 1100, 1085, 1080, 1082, 1072>>, 0>>,   \* ponedel'nika
       <<<<1087, 1085>>, 0>>,   \* pn
       <<<<1074, 1090, 1086, 1088, 1085, 1080, 1082>>, 1>>,   \* vtornik
       <<<<1074, 1090, 1086, 1088, 1085, 1080, 1082, 1072>>, 1>>,   \* vtornika
       <<<<1074, 1090>>, 1>>,   \* vt
       <<<<1089, 1088, 1077, 1076, 1072>>, 2>>,   \* sreda
       <<<<1089, 1088, 1077, 1076, 1091>>, 2>>,   \* sredu
       <<<<1089, 1088, 1077, 1076, 1099>>, 2>>,   \* sredy
       <<<<1089, 1088>>, 2>>,   \* sr
       <<<<1095, 1077, 1090, 1074, 1077, 1088, 1075>>, 3>>,   \* chetverg
       <<<<1095, 1077, 1090, 1074, 1077, 1088, 1075, 1072>>, 3>>,   \* chetverga
       <<<<1095, 1090>>, 3>>,   \* cht
       <<<<1087, 1103, 1090, 1085, 1080, 1094, 1072>>, 4>>,   \* pyatnica
       <<<<1087, 1103, 1090, 1085, 1080, 1094, 1091>>, 4>>,   \* pyatnicu
       <<<<1087, 1103, 1090, 1085, 1080, 1094, 1099>>, 4>>,   \* pyatnicy
       <<<<1087, 1090>>, 4>>,   \* pt
       <<<<1089, 1091, 1073, 1073, 1086, 1090, 1072>>, 5>>,   \* subbota
       <<<<1089, 1091, 1073, 1073, 1086, 1090, 1091>>, 5>>,   \* subbotu
       <<<<1089, 1091, 1073, 1073, 1086, 1090, 1099>>, 5>>,   \* subboty
       <<<<1089, 1073>>, 5>>,   \* sb
       <<<<1074, 1086, 1089, 1082, 1088, 1077, 1089, 1077, 1085, 1100, 1077>>, 6>>,   \* voskresen'e
       <<<<1074, 1086, 1089, 1082, 1088, 1077, 1089, 1077, 1085, 1100, 1103>>, 6>>,   \* voskresen'ya
       <<<<1074, 1089>>, 6>> >>   \* vs
relative_dates ==
    << <<<<1089, 1077, 1075, 1086, 1076, 1085, 1103>>, 0>>,   \* segodnya
       <<<<1079, 1072, 1074, 1090, 1088, 1072>>, 1>>,   \* zavtra
       <<<<1087, 1086, 1089, 1083, 1077, 1079, 1072, 1074, 1090, 1088, 1072>>, 2>> >>   \* poslezavtra

(***************************************************************************)
(* Characters: str.lower() and the regex classes \d, \s, [a-ya yo].        *)
(***************************************************************************)
\* str.lower() on one code point: A-Z, Cyrillic A-YA (1040..1071), YO (1025).
LowerChar(c) ==
    IF c >= 65 /\ c <= 90 THEN c + 32
    ELSE IF c >= 1040 /\ c <= 1071 THEN c + 32
    ELSE IF c = 1025 THEN 1105
    ELSE c

Lower(text) == [i \in 1..Len(text) |-> LowerChar(text[i])]

IsDigit(c) == c >= 48 /\ c <= 57
IsSpace(c) == c \in {32, 9, 10, 13}
\* [a-ya yo]: 1072..1103 and 1105
IsCyr(c) == (c >= 1072 /\ c <= 1103) \/ c = 1105
\* [:\.]
IsSep(c) == c \in {58, 46}

\* Character at position i, or 0 (no character) past either end.
At(t, i) == IF i >= 1 /\ i <= Len(t) THEN t[i] ELSE 0

\* int() of the digit characters t[i..j]
RECURSIVE IntOf(_, _, _)
IntOf(t, i, j) == IF j < i THEN 0 ELSE IntOf(t, i, j - 1) * 10 + (t[j] - 48)

\* First position >= i whose character is not in the class (greedy run end).
RECURSIVE SkipSpaces(_, _)
SkipSpaces(t, i) == IF IsSpace(At(t, i)) THEN SkipSpaces(t, i + 1) ELSE i
RECURSIVE SkipCyr(_, _)
SkipCyr(t, i) == IF IsCyr(At(t, i)) THEN SkipCyr(t, i + 1) ELSE i

\* `word in text`: word occurs at position i / anywhere.
OccursAt(word, t, i) ==
    /\ i + Len(word) - 1 <= Len(t)
    /\ \A k \in 1..Len(word) : t[i + k - 1] = word[k]
Contains(t, word) == \E i \in 1..Len(t) : OccursAt(word, t, i)

\* The least element of a non-empty set of positions (leftmost match,
\* first table entry).
First(S) == CHOOSE i \in S : \A j \in S : i <= j

(***************************************************************************)
(* Calendar: datetime(...), date ordinals, weekday(), timedelta(days=n).   *)
(***************************************************************************)
IsLeap(y) == y % 4 = 0 /\ (y % 100 # 0 \/ y % 400 = 0)

DaysInMonth(y, m) ==
    IF m = 2 THEN (IF IsLeap(y) THEN 29 ELSE 28)
    ELSE IF m \in {4, 6, 9, 11} THEN 30
    ELSE 31

\* datetime(year, month, day) raises ValueError exactly when this is false.
ValidDate(y, m, d) ==
    /\ y >= 1 /\ y <= 9999
    /\ m >= 1 /\ m <= 12
    /\ d >= 1 /\ d <= DaysInMonth(y, m)

RECURSIVE DaysBeforeMonth(_, _)
DaysBeforeMonth(y, m) ==
    IF m <= 1 THEN 0 ELSE DaysBeforeMonth(y, m - 1) + DaysInMonth(y, m - 1)

DaysBeforeYear(y) ==
    (y - 1) * 365 + ((y - 1) \div 4) - ((y - 1) \div 100) + ((y - 1) \div 400)

\* date.toordinal(): 1 for 0001-01-01
ToOrdinal(dt) == DaysBeforeYear(dt.year) + DaysBeforeMonth(dt.year, dt.month) + dt.day

\* date.weekday(): Monday is 0
Weekday(dt) == (ToOrdinal(dt) + 6) % 7

Datetime(y, m, d, hh, mm, ss) ==
    [year |-> y, month |-> m, day |-> d, hour |-> hh, minute |-> mm, second |-> ss]

\* The day after dt's date, time of day kept.
NextDay(dt) ==
    IF dt.day < DaysInMonth(dt.year, dt.month) THEN [dt EXCEPT !.day = dt.day + 1]
    ELSE IF dt.month < 12 THEN [dt EXCEPT !.month = dt.month + 1, !.day = 1]
    ELSE [dt EXCEPT !.year = dt.year + 1, !.month = 1, !.day = 1]

\* dt + timedelta(days=n), n >= 0
RECURSIVE AddDays(_, _)
AddDays(dt, n) == IF n <= 0 THEN dt ELSE AddDays(NextDay(dt), n - 1)

\* dt.replace(hour=0, minute=0, second=0, microsecond=0)
Midnight(dt) == [dt EXCEPT !.hour = 0, !.minute = 0, !.second = 0]

SecondOfDay(dt) == (dt.hour * 60 + dt.minute) * 60 + dt.second

\* a.date() < b.date()
DateBefore(a, b) == ToOrdinal(a) < ToOrdinal(b)

\* a < b, a <= b on datetimes of the same offset
DtLess(a, b) ==
    \/ ToOrdinal(a) < ToOrdinal(b)
    \/ ToOrdinal(a) = ToOrdinal(b) /\ SecondOfDay(a) < SecondOfDay(b)
DtLeq(a, b) == a = b \/ DtLess(a, b)

(***************************************************************************)
(* re.search and the `or`-like cascades.                                   *)
(***************************************************************************)
\* re.search: ms[i] is the match attempt anchored at position i (None when
\* it fails); the leftmost position that matches gives the match.
Leftmost(ms) ==
    LET hits == {i \in DOMAIN ms : ms[i] # None}
    IN  IF hits = {} THEN None ELSE ms[First(hits)]

\* a when it is a result, b otherwise
OrElse(a, b) == IF a # None THEN a ELSE b

(***************************************************************************)
(* Date strategies.                                                        *)
(***************************************************************************)
\* Variant of DaysUntilWeekday: today counts as the next occurrence.
DaysUntilWeekday_SameDay(weekday_num, current_weekday) ==
    (weekday_num - current_weekday) % 7

\* (weekday_num - current_weekday) % 7, with 0 moved to next week
DaysUntilWeekday(weekday_num, current_weekday) ==
    LET days_ahead == (weekday_num - current_weekday) % 7
    IN  IF days_ahead = 0 THEN 7 ELSE days_ahead

\* Index of the first table entry whose key is a substring of t, 0 if none.
FirstEntryIn(table, t) ==
    LET hits == {k \in 1..Len(table) : Contains(t, table[k][1])}
    IN  IF hits = {} THEN 0 ELSE First(hits)

\* The date for entry k of russian_weekdays (lines 82-91)
WeekdayDate(k, now) ==
    IF k = 0 THEN None
    ELSE Midnight(AddDays(now, DaysUntilWeekday(russian_weekdays[k][2], Weekday(now))))

parse_weekday_date(text, now) ==
    WeekdayDate(FirstEntryIn(russian_weekdays, Lower(text)), now)

\* The date for entry k of relative_dates (lines 101-103)
RelativeDate(k, now) ==
    IF k = 0 THEN None ELSE Midnight(AddDays(now, relative_dates[k][2]))

parse_relative_date(text, now) ==
    RelativeDate(FirstEntryIn(relative_dates, Lower(text)), now)

\* russian_months.get(month_name); 0 stands for the missing key (falsy).
MonthOf(month_name) ==
    LET hits == {k \in 1..Len(russian_months) : russian_months[k][1] = month_name}
    IN  IF hits = {} THEN 0 ELSE russian_months[First(hits)][2]

\* \d{1,2} at i takes two digits when there are two
Digits12(t, i) == IF IsDigit(At(t, i + 1)) THEN 2 ELSE 1

\* (\d{1,2})\s+([a-ya yo]+) anchored at i: the day digits, the blanks and the
\* longest run of letters.  [day, from, to] with the letters at from..to-1.
DayAndWord(t, i) ==
    LET n == Digits12(t, i)
        w == SkipSpaces(t, i + n)
        e == SkipCyr(t, w)
    IN  IF IsDigit(At(t, i)) /\ w > i + n /\ e > w
        THEN [day |-> IntOf(t, i, i + n - 1), from |-> w, to |-> e]
        ELSE None

\* \s+\d{4} matches at position e
YearAt(t, e) ==
    LET q == SkipSpaces(t, e)
    IN  q > e /\ \A k \in 0..3 : IsDigit(At(t, q + k))

\* The groups of (\d{1,2})\s+([a-ya yo]+)(?!\s+\d{4}) for day and word dw.
\* When a year follows the whole word the regex backtracks and gives up the
\* word's last letter.
WithoutYearGroups(t, dw) ==
    IF dw = None THEN None
    ELSE IF ~YearAt(t, dw.to)
         THEN [day |-> dw.day, month_name |-> SubSeq(t, dw.from, dw.to - 1)]
    ELSE IF dw.to - dw.from >= 2
         THEN [day |-> dw.day, month_name |-> SubSeq(t, dw.from, dw.to - 2)]
    ELSE None

MatchDateWithoutYear(t, i) == WithoutYearGroups(t, DayAndWord(t, i))

\* Variant of DateInYearOrNext: today's date is taken as passed (<=).
DateInYearOrNext_Inclusive(month, day, now) ==
    IF ~ValidDate(now.year, month, day) THEN None
    ELSE IF ~DateBefore(now, Datetime(now.year, month, day, 0, 0, 0))
         THEN IF ValidDate(now.year + 1, month, day)
              THEN Datetime(now.year + 1, month, day, 0, 0, 0)
              ELSE None
    ELSE Datetime(now.year, month, day, 0, 0, 0)

\* The year rule of parse_date_without_year (lines 123-136): the current
\* year, the next year when that date has passed, None when datetime(...)
\* raises ValueError.
DateInYearOrNext(month, day, now) ==
    LET current_year == now.year
    IN  IF ~ValidDate(current_year, month, day) THEN None
        ELSE IF DateBefore(Datetime(current_year, month, day, 0, 0, 0), now)
             THEN IF ValidDate(current_year + 1, month, day)
                  THEN Datetime(current_year + 1, month, day, 0, 0, 0)
                  ELSE None
        ELSE Datetime(current_year, month, day, 0, 0, 0)

\* Lines 113-136 for the regex match
DateOfMatchWithoutYear(match, now) ==
    IF match = None THEN None
    ELSE IF MonthOf(match.month_name) = 0 THEN None
    ELSE DateInYearOrNext(MonthOf(match.month_name), match.day, now)

\* parse_date_without_year on the lowered text
DateWithoutYearIn(t, now) ==
    DateOfMatchWithoutYear(
        Leftmost([i \in 1..Len(t) |-> MatchDateWithoutYear(t, i)]), now)

parse_date_without_year(text, now) == DateWithoutYearIn(Lower(text), now)

\* The groups of (\d{1,2})\s+([a-ya yo]+)\s+(\d{4}) for day and word dw
RussianDateGroups(t, dw) ==
    IF dw = None THEN None
    ELSE IF ~YearAt(t, dw.to) THEN None
    ELSE [day |-> dw.day, month_name |-> SubSeq(t, dw.from, dw.to - 1),
          year |-> IntOf(t, SkipSpaces(t, dw.to), SkipSpaces(t, dw.to) + 3)]

MatchRussianDate(t, i) == RussianDateGroups(t, DayAndWord(t, i))

\* Lines 144-158 for the regex match
DateOfRussianMatch(match) ==
    IF match = None THEN None
    ELSE IF MonthOf(match.month_name) = 0 THEN None
    ELSE IF ValidDate(match.year, MonthOf(match.month_name), match.day)
         THEN Datetime(match.year, MonthOf(match.month_name), match.day, 0, 0, 0)
    ELSE None

\* parse_russian_date on the lowered text
RussianDateIn(t) ==
    DateOfRussianMatch(Leftmost([i \in 1..Len(t) |-> MatchRussianDate(t, i)]))

parse_russian_date(text) == RussianDateIn(Lower(text))

(***************************************************************************)
(* Time ranges.                                                            *)
(***************************************************************************)
_create_time_range(start_h, start_m, end_h, end_m) ==
    IF ~(/\ 0 <= start_h /\ start_h <= 23 /\ 0 <= start_m /\ start_m <= 59
         /\ 0 <= end_h /\ end_h <= 23 /\ 0 <= end_m /\ end_m <= 59)
    THEN None
    ELSE [start_hour |-> start_h, start_minute |-> start_m,
          end_hour |-> end_h, end_minute |-> end_m]

\* (\d{1,2})[:\.](\d{2}) anchored at i; next is the position after the match.
TimeAt(t, i) ==
    LET n == Digits12(t, i)
    IN  IF /\ IsDigit(At(t, i))
           /\ IsSep(At(t, i + n))
           /\ IsDigit(At(t, i + n + 1)) /\ IsDigit(At(t, i + n + 2))
        THEN [hour |-> IntOf(t, i, i + n - 1),
              minute |-> IntOf(t, i + n + 1, i + n + 2),
              next |-> i + n + 3]
        ELSE None

\* The four groups of a range pattern from its two times
TwoTimes(a, b) ==
    IF a = None \/ b = None THEN None
    ELSE [g1 |-> a.hour, g2 |-> a.minute, g3 |-> b.hour, g4 |-> b.minute]

\* \s+do\s+(\d{1,2})[:\.](\d{2}) after the first time a, the blanks ending at d
DoAfterBlanks(t, a, d) ==
    IF /\ d > a.next
       /\ At(t, d) = 1076 /\ At(t, d + 1) = 1086
       /\ SkipSpaces(t, d + 2) > d + 2
    THEN TwoTimes(a, TimeAt(t, SkipSpaces(t, d + 2)))
    ELSE None

DoAfterTime(t, a) ==
    IF a = None THEN None ELSE DoAfterBlanks(t, a, SkipSpaces(t, a.next))

\* (\d{1,2})[:\.](\d{2})\s+do\s+(\d{1,2})[:\.](\d{2}) anchored at j
MatchDoCore(t, j) == DoAfterTime(t, TimeAt(t, j))

\* Length of (?:s|ot) at i, 0 when absent
DoPrefix(t, i) ==
    IF At(t, i) = 1089 THEN 1
    ELSE IF At(t, i) = 1086 /\ At(t, i + 1) = 1090 THEN 2
    ELSE 0

\* (?:s|ot)?\s* and then the core, anchored at i: with the prefix when the
\* rest matches after it, without it otherwise.
MatchDo(t, i) ==
    OrElse(IF DoPrefix(t, i) > 0
           THEN MatchDoCore(t, SkipSpaces(t, i + DoPrefix(t, i)))
           ELSE None,
           MatchDoCore(t, SkipSpaces(t, i)))

\* (\d{1,2})-(\d{1,2})(?!\d) anchored at i
MatchShort(t, i) ==
    LET n == Digits12(t, i)
        k == i + n + 1
        m == Digits12(t, k)
    IN  IF /\ IsDigit(At(t, i))
           /\ At(t, i + n) = 45
           /\ IsDigit(At(t, k))
           /\ ~IsDigit(At(t, k + m))
        THEN [g1 |-> IntOf(t, i, i + n - 1), g2 |-> IntOf(t, k, k + m - 1)]
        ELSE None

DashAfterTime(t, a) ==
    IF a = None THEN None
    ELSE IF At(t, a.next) # 45 THEN None
    ELSE TwoTimes(a, TimeAt(t, a.next + 1))

\* (\d{1,2})[:\.](\d{2})-(\d{1,2})[:\.](\d{2}) anchored at i
MatchDash(t, i) == DashAfterTime(t, TimeAt(t, i))

\* The (hour, minute) of a matched time
HourMinute(a) == IF a = None THEN None ELSE [hour |-> a.hour, minute |-> a.minute]

\* v\s+(\d{1,2})[:\.](\d{2}) anchored at i
MatchSingle1(t, i) ==
    IF At(t, i) = 1074 /\ SkipSpaces(t, i + 1) > i + 1
    THEN HourMinute(TimeAt(t, SkipSpaces(t, i + 1)))
    ELSE None

\* (\d{1,2})(?![:\.]) at w: two digits unless a separator follows them, and
\* then the first digit alone.
HourWithoutSep(t, w) ==
    IF ~IsDigit(At(t, w)) THEN None
    ELSE IF IsDigit(At(t, w + 1))
         THEN IF ~IsSep(At(t, w + 2))
              THEN [hour |-> IntOf(t, w, w + 1), minute |-> 0]
              ELSE [hour |-> IntOf(t, w, w), minute |-> 0]
    ELSE IF ~IsSep(At(t, w + 1))
         THEN [hour |-> IntOf(t, w, w), minute |-> 0]
    ELSE None

\* v\s+(\d{1,2})(?![:\.]) anchored at i
MatchSingle2(t, i) ==
    IF At(t, i) = 1074 /\ SkipSpaces(t, i + 1) > i + 1
    THEN HourWithoutSep(t, SkipSpaces(t, i + 1))
    ELSE None

\* vremya\s+(\d{1,2})[:\.](\d{2}) anchored at i
MatchSingle3(t, i) ==
    IF OccursAt(<<1074, 1088, 1077, 1084, 1103>>, t, i) /\ SkipSpaces(t, i + 5) > i + 5
    THEN HourMinute(TimeAt(t, SkipSpaces(t, i + 5)))
    ELSE None

\* (?!\s*[-do]) after the time a
NotBeforeDash(t, a) ==
    IF a = None THEN None
    ELSE IF At(t, SkipSpaces(t, a.next)) \in {45, 1076, 1086} THEN None
    ELSE HourMinute(a)

\* (?<!\d)(\d{1,2})[:\.](\d{2})(?!\s*[-do]) anchored at i
MatchSingle4(t, i) ==
    IF IsDigit(At(t, i - 1)) THEN None ELSE NotBeforeDash(t, TimeAt(t, i))

\* Lines 239-246: the standalone time is taken only when it is a time of day
ReasonableTime(m) ==
    IF m = None THEN None
    ELSE IF m.hour <= 23 /\ m.minute <= 59 THEN m
    ELSE None

_parse_single_time(text) ==
    OrElse(Leftmost([i \in 1..Len(text) |-> MatchSingle1(text, i)]),
    OrElse(Leftmost([i \in 1..Len(text) |-> MatchSingle2(text, i)]),
    OrElse(Leftmost([i \in 1..Len(text) |-> MatchSingle3(text, i)]),
           ReasonableTime(Leftmost([i \in 1..Len(text) |-> MatchSingle4(text, i)])))))

\* Variant of SingleTimeRange: the end hour rolls over to the next day.
SingleTimeRange_Rollover(single_time) ==
    IF single_time = None THEN None
    ELSE _create_time_range(single_time.hour, single_time.minute,
                            (single_time.hour + 1) % 24, single_time.minute)

\* Pattern 4 of parse_time_range (lines 183-196): one hour after the single
\* time, 23:59 when that reaches 24.
SingleTimeRange(single_time) ==
    IF single_time = None THEN None
    ELSE IF single_time.hour + 1 >= 24
         THEN _create_time_range(single_time.hour, single_time.minute, 23, 59)
    ELSE _create_time_range(single_time.hour, single_time.minute,
                            single_time.hour + 1, single_time.minute)

\* Pattern 3 (lines 177-180), then pattern 4
FromDash(t, match_dash) ==
    IF match_dash # None
    THEN _create_time_range(match_dash.g1, match_dash.g2, match_dash.g3, match_dash.g4)
    ELSE SingleTimeRange(_parse_single_time(t))

\* Pattern 2 (lines 171-174), then pattern 3
FromShort(t, match_short) ==
    IF match_short # None
    THEN _create_time_range(match_short.g1, 0, match_short.g2, 0)
    ELSE FromDash(t, Leftmost([i \in 1..Len(t) |-> MatchDash(t, i)]))

\* Pattern 1 (lines 165-168), then pattern 2
FromDo(t, match_do) ==
    IF match_do # None
    THEN _create_time_range(match_do.g1, match_do.g2, match_do.g3, match_do.g4)
    ELSE FromShort(t, Leftmost([i \in 1..Len(t) |-> MatchShort(t, i)]))

\* re.search of the three range patterns on the lowered text
SearchDo(t) == Leftmost([i \in 1..Len(t) |-> MatchDo(t, i)])
SearchShort(t) == Leftmost([i \in 1..Len(t) |-> MatchShort(t, i)])
SearchDash(t) == Leftmost([i \in 1..Len(t) |-> MatchDash(t, i)])

\* parse_time_range on the lowered text
TimeRangeIn(t) == FromDo(t, Leftmost([i \in 1..Len(t) |-> MatchDo(t, i)]))

parse_time_range(text) == TimeRangeIn(Lower(text))

(***************************************************************************)
(* parse_visit_info: the date cascade, the time range, and their join.     *)
(***************************************************************************)
\* Variant of ResolveDate: the weekday strategy before the absolute date.
ResolveDate_WeekdayFirst(text, now) ==
    OrElse(parse_weekday_date(text, now),
    OrElse(parse_russian_date(text),
    OrElse(parse_relative_date(text, now),
           parse_date_without_year(text, now))))

\* Lines 250-266: the first strategy that gives a date wins.
ResolveDate(text, now) ==
    OrElse(parse_russian_date(text),
    OrElse(parse_weekday_date(text, now),
    OrElse(parse_relative_date(text, now),
           parse_date_without_year(text, now))))

\* date.replace(hour=..., minute=..., second=0, microsecond=0)
WithTime(date, hh, mm) == [date EXCEPT !.hour = hh, !.minute = mm, !.second = 0]

\* Variant of VisitInfo: a date without a time range gives the whole day.
VisitInfo_AllDay(date, time_range, text) ==
    IF date = None THEN None
    ELSE IF time_range = None
         THEN [date |-> Midnight(date), start_time |-> WithTime(date, 0, 0),
               end_time |-> WithTime(date, 23, 59), original_text |-> text]
    ELSE [date |-> Midnight(date),
          start_time |-> WithTime(date, time_range.start_hour, time_range.start_minute),
          end_time |-> WithTime(date, time_range.end_hour, time_range.end_minute),
          original_text |-> text]

\* Lines 271-296
VisitInfo(date, time_range, text) ==
    IF date = None \/ time_range = None THEN None
    ELSE [date |-> Midnight(date),
          start_time |-> WithTime(date, time_range.start_hour, time_range.start_minute),
          end_time |-> WithTime(date, time_range.end_hour, time_range.end_minute),
          original_text |-> text]

parse_visit_info(text, now) ==
    VisitInfo(ResolveDate(text, now), parse_time_range(text), text)

(***************************************************************************)
(* Inputs and bounds.                                                      *)
(***************************************************************************)
\* Texts of replied-to messages (code points; transliterated in the comment).
T_pt_16_17 == <<1087, 1090, 32, 49, 54, 45, 49, 55>>   \* pt 16-17
T_pyatnica_16_17 == <<1055, 1103, 1090, 1085, 1080, 1094, 1072, 32, 49, 54, 45, 49, 55>>   \* Pyatnica 16-17
T_segodnya_23_01 == <<1089, 1077, 1075, 1086, 1076, 1085, 1103, 32, 50, 51, 45, 48, 49>>   \* segodnya 23-01
T_privet == <<1087, 1088, 1080, 1074, 1077, 1090>>   \* privet
T_12_iyulya == <<49, 50, 32, 1080, 1102, 1083, 1103>>   \* 12 iyulya
T_v_16 == <<1074, 32, 49, 54>>   \* v 16
T_12_iyulya_2025_v_10_00 == <<49, 50, 32, 1080, 1102, 1083, 1103, 32, 50, 48, 50, 53, 32, 1074, 32, 49, 48, 58, 48, 48>>   \* 12 iyulya 2025 v 10:00
StoreTexts ==
    {T_pt_16_17, T_pyatnica_16_17, T_segodnya_23_01, T_privet, T_12_iyulya, T_v_16, T_12_iyulya_2025_v_10_00}

\* Date expressions.
D_pn == <<1087, 1085>>   \* pn
D_vtornik == <<1074, 1090, 1086, 1088, 1085, 1080, 1082>>   \* vtornik
D_sredu == <<1074, 32, 1089, 1088, 1077, 1076, 1091>>   \* v sredu
D_cht == <<1095, 1090>>   \* cht
D_pt == <<1087, 1090>>   \* pt
D_subbota == <<1057, 1091, 1073, 1073, 1086, 1090, 1072>>   \* Subbota
D_vs == <<1074, 1089>>   \* vs
D_segodnya == <<1057, 1077, 1075, 1086, 1076, 1085, 1103>>   \* Segodnya
D_zavtra == <<1079, 1072, 1074, 1090, 1088, 1072>>   \* zavtra
D_poslezavtra == <<1087, 1086, 1089, 1083, 1077, 1079, 1072, 1074, 1090, 1088, 1072>>   \* poslezavtra
D_12_iyulya == <<49, 50, 32, 1080, 1102, 1083, 1103>>   \* 12 iyulya
D_29_fevralya == <<50, 57, 32, 1092, 1077, 1074, 1088, 1072, 1083, 1103>>   \* 29 fevralya
D_31_iyunya == <<51, 49, 32, 1080, 1102, 1085, 1103>>   \* 31 iyunya
D_1_yanvarya == <<49, 32, 1103, 1085, 1074, 1072, 1088, 1103>>   \* 1 yanvarya
D_2_iyunya == <<50, 32, 1080, 1102, 1085, 1103>>   \* 2 iyunya
D_12_iyulya_2025 == <<49, 50, 32, 1080, 1102, 1083, 1103, 32, 50, 48, 50, 53>>   \* 12 iyulya 2025
D_v_pt_12_iyulya_2025 == <<1074, 32, 1087, 1090, 32, 49, 50, 32, 1080, 1102, 1083, 1103, 32, 50, 48, 50, 53>>   \* v pt 12 iyulya 2025
D_12_iyulya_2025_poslezavtra == <<49, 50, 32, 1080, 1102, 1083, 1103, 32, 50, 48, 50, 53, 32, 1087, 1086, 1089, 1083, 1077, 1079, 1072, 1074, 1090, 1088, 1072>>   \* 12 iyulya 2025 poslezavtra
D_vo_vtornik_29_fevralya_2024 == <<1074, 1086, 32, 1074, 1090, 1086, 1088, 1085, 1080, 1082, 32, 50, 57, 32, 1092, 1077, 1074, 1088, 1072, 1083, 1103, 32, 50, 48, 50, 52>>   \* vo vtornik 29 fevralya 2024
D_none == <<>>   \* 
DateParts ==
    {D_pn, D_vtornik, D_sredu, D_cht, D_pt, D_subbota, D_vs, D_segodnya, D_zavtra, D_poslezavtra, D_12_iyulya, D_29_fevralya, D_31_iyunya, D_1_yanvarya, D_2_iyunya, D_12_iyulya_2025, D_v_pt_12_iyulya_2025, D_12_iyulya_2025_poslezavtra, D_vo_vtornik_29_fevralya_2024, D_none}

\* Time expressions.
H_16_17 == <<49, 54, 45, 49, 55>>   \* 16-17
H_1630_1730 == <<49, 54, 58, 51, 48, 45, 49, 55, 58, 51, 48>>   \* 16:30-17:30
H_ot_16_do_17 == <<1086, 1090, 32, 49, 54, 32, 1076, 1086, 32, 49, 55>>   \* ot 16 do 17
H_s_1600_do_1730 == <<1089, 32, 49, 54, 58, 48, 48, 32, 1076, 1086, 32, 49, 55, 58, 51, 48>>   \* s 16:00 do 17:30
H_v_2330 == <<1074, 32, 50, 51, 58, 51, 48>>   \* v 23:30
H_v_10 == <<1074, 32, 49, 48>>   \* v 10
H_1000 == <<49, 48, 58, 48, 48>>   \* 10:00
H_23_01 == <<50, 51, 45, 48, 49>>   \* 23-01
H_16_16 == <<49, 54, 45, 49, 54>>   \* 16-16
H_v_2359 == <<1074, 32, 50, 51, 58, 53, 57>>   \* v 23:59
H_25_26_v_16 == <<50, 53, 45, 50, 54, 32, 1074, 32, 49, 54>>   \* 25-26 v 16
H_0915_1045 == <<57, 58, 49, 53, 45, 49, 48, 58, 52, 53>>   \* 9:15-10:45
H_ot_9_do_11 == <<1086, 1090, 32, 57, 32, 1076, 1086, 32, 49, 49>>   \* ot 9 do 11
H_vremya_2245 == <<1074, 1088, 1077, 1084, 1103, 32, 50, 50, 46, 52, 53>>   \* vremya 22.45
H_v_0 == <<1074, 32, 48>>   \* v 0
H_none == <<>>   \* 
TimeParts ==
    {H_16_17, H_1630_1730, H_ot_16_do_17, H_s_1600_do_1730, H_v_2330, H_v_10, H_1000, H_23_01, H_16_16, H_v_2359, H_25_26_v_16, H_0915_1045, H_ot_9_do_11, H_vremya_2245, H_v_0, H_none}

\* Full texts for the parser: a date expression, a blank or a comma and a
\* blank, a time expression.
Separators == {<<32>>, <<44, 32>>}
ParseTexts == {d \o s \o h : d \in DateParts, s \in Separators, h \in TimeParts}

\* The store holds at most MaxVisits visits in the model.
MaxVisits == 2

\* The clock readings of the store's runs start on Monday 2025-06-02 10:00.
ClockStart == Datetime(2025, 6, 2, 10, 0, 0)
ClockValues ==
    {ClockStart,
     Datetime(2025, 6, 6, 16, 0, 0),
     Datetime(2025, 6, 6, 16, 0, 30),
     Datetime(2025, 6, 6, 17, 0, 0),
     Datetime(2025, 6, 12, 10, 0, 0)}

\* days_ahead arguments of get_upcoming_visits; 30 is the default.
DaysAheadValues == {0, 30}

\* Clock readings for the parser: NowDays consecutive days from a Monday,
\* and days around a leap day and a year's end.
NowDays == 7
ParseNows ==
    {AddDays(Datetime(2025, 6, 2, 10, 0, 0), k) : k \in 0..(NowDays - 1)}
    \cup {Datetime(2024, 2, 29, 12, 0, 0), Datetime(2024, 3, 5, 0, 0, 0),
          Datetime(2025, 12, 31, 18, 30, 15), Datetime(2025, 7, 12, 9, 0, 0)}

(***************************************************************************)
(* Visit and the visit store.                                              *)
(***************************************************************************)
\* Variant of VisitEq: the default dataclass equality, over every field.
VisitEq_AllFields(a, b) == a = b

\* Visit.__eq__ (and __hash__): start_time and end_time only
VisitEq(a, b) == a.start_time = b.start_time /\ a.end_time = b.end_time

\* `visit in self.visits`
InStore(visit, store) == \E v \in store : VisitEq(v, visit)

\* The Visit add_visit builds.  The id is the SHA-256 of start, end and text,
\* kept here as the triple that is hashed.
NewVisit(visit_info, text, now) ==
    [id |-> <<visit_info.start_time, visit_info.end_time, text>>,
     start_time |-> visit_info.start_time,
     end_time |-> visit_info.end_time,
     original_text |-> text,
     created_at |-> now]

\* Variant of InsertVisit: the visit is added without the membership check.
InsertVisit_Unchecked(store, visit, visit_info) ==
    [visits |-> store \cup {visit}, result |-> visit, path |-> "added",
     visit_info |-> visit_info]

\* Lines 317-325: the duplicate check and the insertion
InsertVisit(store, visit, visit_info) ==
    IF InStore(visit, store)
    THEN [visits |-> store, result |-> None, path |-> "duplicate",
          visit_info |-> visit_info]
    ELSE [visits |-> store \cup {visit}, result |-> visit, path |-> "added",
          visit_info |-> visit_info]

\* Lines 302-325 for the parse result
AddParsed(store, text, now, visit_info) ==
    IF visit_info = None
    THEN [visits |-> store, result |-> None, path |-> "parse_failed",
          visit_info |-> None]
    ELSE InsertVisit(store, NewVisit(visit_info, text, now), visit_info)

\* add_visit: the store afterwards, the value returned, and the return
\* statement taken (line 303, 320 or 325).
add_visit(store, text, now) ==
    AddParsed(store, text, now, parse_visit_info(text, now))

\* Variant of cleanup_past_visits: a visit ending exactly now is kept (>=).
cleanup_past_visits_Inclusive(store, now) == {v \in store : DtLeq(now, v.end_time)}

\* cleanup_past_visits: keep the visits that have not ended yet
cleanup_past_visits(store, now) == {v \in store : DtLess(now, v.end_time)}

\* Variant of UpcomingSet: only the cutoff is tested, not start >= now.
UpcomingSet_NoLowerBound(store, now, days_ahead) ==
    {v \in store : DtLeq(v.start_time, AddDays(now, days_ahead))}

\* The filter of get_upcoming_visits over the cleaned store
UpcomingSet(store, now, days_ahead) ==
    {v \in store : DtLeq(now, v.start_time)
                   /\ DtLeq(v.start_time, AddDays(now, days_ahead))}

\* list.sort(key=start_time): a stable insertion sort
RECURSIVE InsertByStart(_, _)
InsertByStart(sorted, v) ==
    IF sorted = <<>> THEN <<v>>
    ELSE IF DtLess(v.start_time, sorted[Len(sorted)].start_time)
         THEN Append(InsertByStart(SubSeq(sorted, 1, Len(sorted) - 1), v),
                     sorted[Len(sorted)])
    ELSE Append(sorted, v)

RECURSIVE SortByStart(_)
SortByStart(list) ==
    IF list = <<>> THEN <<>>
    ELSE InsertByStart(SortByStart(SubSeq(list, 1, Len(list) - 1)), list[Len(list)])

\* The orders in which a set can be iterated
Orderings(S) ==
    {f \in [1..Cardinality(S) -> S] : \A i, j \in 1..Cardinality(S) : i # j => f[i] # f[j]}


(***************************************************************************)
(* Handler coroutines and the endpoint monitor: values of the state.       *)
(***************************************************************************)
\* Handlers that can be pending in the event loop at the same time.
MaxTasks == 2

\* A handler that is not running.
Idle ==
    [state |-> "idle", command |-> "none", text |-> <<>>, path |-> "none",
     result |-> None, upcoming |-> <<>>]

\* Two of the nine endpoints fetch_all_content fetches.
Endpoints == {"agent_info", "event_info"}

\* Content hashes; NoHash stands for a key missing from previous_hashes.
Hashes == {1, 2}
NoHash == 0

\* The result fetch_endpoint gives when it fails ('success': False).
FetchFailed == [success |-> FALSE]

\* Config.CHECK_INTERVAL (default) and timedelta(minutes=1), in seconds.
CHECK_INTERVAL == 10
OneMinute == 60

\* The locals of main when the monitoring loop is entered (line 84) and the
\* first check has not run; `before` keeps the hashes stored when the last
\* check began and `outcome` the branch the last iteration took.
MainLoopStart ==
    [pc |-> "check", last_notification_time |-> None, moscow_time |-> 0,
     results |-> [endpoints |-> [e \in Endpoints |-> FetchFailed],
                  changes_detected |-> {}, any_changes |-> FALSE],
     before |-> [e \in Endpoints |-> NoHash],
     outcome |-> "none", wake |-> 0]
(***************************************************************************)
(* State.                                                                  *)
(***************************************************************************)
VARIABLES
    visits,     \* ScheduleManager.visits
    now,        \* the clock, datetime.now(moscow_tz)
    last,       \* the last operation on the store: its inputs and results
    pText,      \* parser run: the text
    pNow,       \* parser run: the clock reading
    pOut,       \* parser run: the results, None before the run
    tasks,      \* the handler coroutines of the event loop
    previous_hashes,    \* NuclearMonitor.previous_hashes
    remote,     \* the content the endpoints serve, as its hash
    mclock,     \* get_moscow_time(), in seconds
    loop,       \* the monitoring loop of main: position and locals
    sent,       \* the change notifications sent, oldest first
    dropped     \* the changes detected and not notified

vars ==
    <<visits, now, last, pText, pNow, pOut, tasks,
      previous_hashes, remote, mclock, loop, sent, dropped>>

\* The state of the monitor
monitorVars == <<previous_hashes, remote, mclock, loop, sent, dropped>>

NoOp ==
    [op |-> "none", text |-> <<>>, now |-> ClockStart, before |-> {},
     visit_info |-> None, path |-> "none", result |-> None, reply |-> "none",
     days_ahead |-> 0, upcoming |-> <<>>, count |-> 0]

Init ==
    /\ visits = {}
    /\ now = ClockStart
    /\ last = NoOp
    /\ pText = <<>>
    /\ pNow = ClockStart
    /\ pOut = None
    /\ tasks = [i \in 1..MaxTasks |-> Idle]
    /\ previous_hashes = [e \in Endpoints |-> NoHash]
    /\ remote = [e \in Endpoints |-> 1]
    /\ mclock = 0
    /\ loop = MainLoopStart
    /\ sent = <<>>
    /\ dropped = {}

(***************************************************************************)
(* Operations on the store.                                                *)
(***************************************************************************)
\* Time passes.
Tick ==
    /\ \E t \in ClockValues : DtLess(now, t) /\ now' = t
    /\ UNCHANGED <<visits, last, pText, pNow, pOut, tasks, monitorVars>>

\* The reply of schedule_handler for what add_visit returned.
ScheduleReply(result) == IF result # None THEN "visit_added" ELSE "not_recognized"

\* Lines 93-108 for the outcome r of add_visit: the store is replaced and the
\* reply counts the visits with get_visit_count.
ScheduleOutcome(replied_text, r) ==
    /\ Cardinality(r.visits) <= MaxVisits
    /\ visits' = r.visits
    /\ last' = [NoOp EXCEPT !.op = "add_visit", !.text = replied_text,
                  !.now = now, !.before = visits,
                  !.visit_info = r.visit_info, !.path = r.path,
                  !.result = r.result, !.reply = ScheduleReply(r.result),
                  !.count = Cardinality(r.visits)]
    /\ UNCHANGED <<now, pText, pNow, pOut, tasks, monitorVars>>

\* /schedule sent in reply to a message with this text
schedule_handler(replied_text) ==
    /\ replied_text # <<>>
    /\ ScheduleOutcome(replied_text, add_visit(visits, replied_text, now))

\* /schedule in reply to a message without text
schedule_handler_no_text ==
    /\ last' = [NoOp EXCEPT !.op = "schedule_no_text", !.now = now,
                  !.before = visits, !.reply = "no_text"]
    /\ UNCHANGED <<visits, now, pText, pNow, pOut, tasks, monitorVars>>

\* get_upcoming_visits(days_ahead); /list calls it with the default.
get_upcoming_visits(days_ahead) ==
    LET kept == cleanup_past_visits(visits, now)
        upcoming == UpcomingSet(kept, now, days_ahead)
    IN  /\ visits' = kept
        /\ \E order \in Orderings(upcoming) :
               last' = [NoOp EXCEPT !.op = "get_upcoming_visits", !.now = now,
                          !.before = visits, !.days_ahead = days_ahead,
                          !.upcoming = SortByStart(order), !.reply = "list"]
        /\ UNCHANGED <<now, pText, pNow, pOut, tasks, monitorVars>>

\* Variant of get_visit_count: expired visits are removed before counting.
get_visit_count_Pruning ==
    /\ visits' = cleanup_past_visits(visits, now)
    /\ last' = [NoOp EXCEPT !.op = "get_visit_count", !.now = now,
                  !.before = visits,
                  !.count = Cardinality(cleanup_past_visits(visits, now))]
    /\ UNCHANGED <<now, pText, pNow, pOut, tasks, monitorVars>>

\* get_visit_count()
get_visit_count ==
    /\ last' = [NoOp EXCEPT !.op = "get_visit_count", !.now = now,
                  !.before = visits, !.count = Cardinality(visits)]
    /\ UNCHANGED <<visits, now, pText, pNow, pOut, tasks, monitorVars>>

Next ==
    \/ Tick
    \/ \E text \in StoreTexts : schedule_handler(text)
    \/ schedule_handler_no_text
    \/ \E days_ahead \in DaysAheadValues : get_upcoming_visits(days_ahead)
    \/ get_visit_count

Spec == Init /\ [][Next]_vars

(***************************************************************************)
(* The parser as a function of (text, now): one run per input.             *)
(***************************************************************************)
ParseInit ==
    /\ visits = {}
    /\ now = ClockStart
    /\ last = NoOp
    /\ pText \in ParseTexts
    /\ pNow \in ParseNows
    /\ pOut = None
    /\ tasks = [i \in 1..MaxTasks |-> Idle]
    /\ previous_hashes = [e \in Endpoints |-> NoHash]
    /\ remote = [e \in Endpoints |-> 1]
    /\ mclock = 0
    /\ loop = MainLoopStart
    /\ sent = <<>>
    /\ dropped = {}

Parse ==
    /\ pOut = None
    /\ pOut' = [absolute |-> parse_russian_date(pText),
                weekday |-> parse_weekday_date(pText, pNow),
                relative |-> parse_relative_date(pText, pNow),
                without_year |-> parse_date_without_year(pText, pNow),
                date |-> ResolveDate(pText, pNow),
                time_range |-> parse_time_range(pText),
                match_do |-> SearchDo(Lower(pText)),
                match_short |-> SearchShort(Lower(pText)),
                match_dash |-> SearchDash(Lower(pText)),
                single_time |-> _parse_single_time(Lower(pText)),
                visit_info |-> parse_visit_info(pText, pNow)]
    /\ UNCHANGED <<visits, now, last, pText, pNow, tasks, monitorVars>>

ParseNext == Parse

ParseSpec == ParseInit /\ [][ParseNext]_vars


(***************************************************************************)
(* The handlers as coroutines of one event loop.  A handler runs from its  *)
(* start to its first await in one step; its only await is the reply.      *)
(***************************************************************************)
\* Texts replied to with /schedule while other handlers are pending.
LoopTexts == {T_pt_16_17, T_pyatnica_16_17, T_privet}

\* Time passes while handlers are pending: to the end of the visit of
\* Friday 2025-06-06 16:00 to 17:00.
LoopTick ==
    /\ \E t \in {Datetime(2025, 6, 6, 17, 0, 0)} : DtLess(now, t) /\ now' = t
    /\ UNCHANGED <<visits, last, pText, pNow, pOut, tasks, monitorVars>>

\* An update with a command arrives and its handler is scheduled.
Dispatch(i, command, text) ==
    /\ tasks[i].state = "idle"
    /\ command = "list" => text = <<>>
    /\ command = "schedule" => text # <<>>
    /\ tasks' = [tasks EXCEPT ![i] = [Idle EXCEPT !.state = "pending",
                                                  !.command = command,
                                                  !.text = text]]
    /\ UNCHANGED <<visits, now, last, pText, pNow, pOut, monitorVars>>

\* schedule_handler up to `await message.reply_text` for the outcome r of
\* add_visit.
RunScheduleOutcome(i, r) ==
    /\ Cardinality(r.visits) <= MaxVisits
    /\ visits' = r.visits
    /\ tasks' = [tasks EXCEPT ![i].state = "replying", ![i].path = r.path,
                              ![i].result = r.result]
    /\ UNCHANGED <<now, last, pText, pNow, pOut, monitorVars>>

\* Variant of RunSchedule: the visit is inserted without the membership
\* check being part of the same step.
RunSchedule_Unchecked(i) ==
    /\ tasks[i].state = "pending" /\ tasks[i].command = "schedule"
    /\ parse_visit_info(tasks[i].text, now) # None
    /\ RunScheduleOutcome(i,
          InsertVisit_Unchecked(visits,
             NewVisit(parse_visit_info(tasks[i].text, now), tasks[i].text, now),
             parse_visit_info(tasks[i].text, now)))

\* schedule_handler from its start to its await
RunSchedule(i) ==
    /\ tasks[i].state = "pending" /\ tasks[i].command = "schedule"
    /\ RunScheduleOutcome(i, add_visit(visits, tasks[i].text, now))

\* list_handler from its start to `await message.reply_text`
RunList(i) ==
    /\ tasks[i].state = "pending" /\ tasks[i].command = "list"
    /\ visits' = cleanup_past_visits(visits, now)
    /\ \E order \in Orderings(UpcomingSet(cleanup_past_visits(visits, now), now, 30)) :
          tasks' = [tasks EXCEPT ![i].state = "replying", ![i].path = "list",
                                 ![i].upcoming = SortByStart(order)]
    /\ UNCHANGED <<now, last, pText, pNow, pOut, monitorVars>>

\* The reply has been sent and the handler returns.
ReplySent(i) ==
    /\ tasks[i].state = "replying"
    /\ tasks' = [tasks EXCEPT ![i] = Idle]
    /\ UNCHANGED <<visits, now, last, pText, pNow, pOut, monitorVars>>

LoopNext ==
    \/ LoopTick
    \/ \E i \in 1..MaxTasks, text \in LoopTexts : Dispatch(i, "schedule", text)
    \/ \E i \in 1..MaxTasks : Dispatch(i, "list", <<>>)
    \/ \E i \in 1..MaxTasks : RunSchedule(i)
    \/ \E i \in 1..MaxTasks : RunList(i)
    \/ \E i \in 1..MaxTasks : ReplySent(i)

LoopSpec == Init /\ [][LoopNext]_vars

(***************************************************************************)
(* The endpoint monitor and the monitoring loop of main.                   *)
(***************************************************************************)
\* The model stops the clock at MaxClock seconds.
MaxClock == 81

\* Seconds that pass in one step of the clock.
Delays == {10, 50, 51}

\* The results fetch_all_content can give while the endpoints serve `served`:
\* each endpoint fails or gives the hash of its content.
FetchResults(served) ==
    {data \in [Endpoints -> {FetchFailed}
                                \cup {[success |-> TRUE, content_hash |-> h] : h \in Hashes}] :
        \A e \in Endpoints : data[e].success => data[e].content_hash = served[e]}

\* Variant of ChangeDetected: the first observation of an endpoint counts
\* as a change.
ChangeDetected_OnFirstRun(previous_hash, result) ==
    result.success /\ previous_hash # result.content_hash

\* Lines 124-133: the branch "Change detected!" is taken
ChangeDetected(previous_hash, result) ==
    /\ result.success
    /\ previous_hash # NoHash
    /\ previous_hash # result.content_hash

\* Variant of StoredHash: a detected change leaves the stored hash as it was.
StoredHash_KeptOnChange(previous_hash, result) ==
    IF ~result.success THEN previous_hash
    ELSE IF previous_hash = NoHash THEN result.content_hash
    ELSE previous_hash

\* previous_hashes[endpoint_key] after the loop body (lines 124-157)
StoredHash(previous_hash, result) ==
    IF ~result.success THEN previous_hash
    ELSE IF previous_hash = NoHash THEN result.content_hash
    ELSE IF previous_hash # result.content_hash THEN result.content_hash
    ELSE previous_hash

\* check_content_for_changes: what it returns and the hashes it leaves
check_content_for_changes(stored, endpoints_data) ==
    [changes_detected |->
        {[endpoint |-> e, previous_hash |-> stored[e],
          current_hash |-> endpoints_data[e].content_hash] :
            e \in {k \in Endpoints : ChangeDetected(stored[k], endpoints_data[k])}},
     any_changes |->
        \E e \in Endpoints : ChangeDetected(stored[e], endpoints_data[e]),
     previous_hashes |->
        [e \in Endpoints |-> StoredHash(stored[e], endpoints_data[e])]]

\* The changes of a check as (endpoint, new hash) pairs
Pairs(changes) == {[endpoint |-> c.endpoint, hash |-> c.current_hash] : c \in changes}

\* check_all_endpoints for the fetched data (lines 164-187); a dropped
\* change is forgotten once another hash is stored for its endpoint.
CheckOutcome(endpoints_data, r) ==
    /\ previous_hashes' = r.previous_hashes
    /\ loop' = [loop EXCEPT !.pc = "decide",
                            !.before = previous_hashes,
                            !.results = [endpoints |-> endpoints_data,
                                         changes_detected |-> r.changes_detected,
                                         any_changes |-> r.any_changes]]
    /\ dropped' = {d \in dropped : r.previous_hashes[d.endpoint] = d.hash}
    /\ UNCHANGED <<remote, mclock, sent>>

check_all_endpoints ==
    /\ loop.pc = "check"
    /\ \E endpoints_data \in FetchResults(remote) :
          CheckOutcome(endpoints_data,
                       check_content_for_changes(previous_hashes, endpoints_data))
    /\ UNCHANGED <<visits, now, last, pText, pNow, pOut, tasks>>

\* Variant of ShouldSend: a notification one minute after the last is sent.
ShouldSend_AtOneMinute(last_notification_time, moscow_time) ==
    \/ last_notification_time = None
    \/ moscow_time >= last_notification_time.time + OneMinute

\* send_message of main (lines 99-103)
ShouldSend(last_notification_time, moscow_time) ==
    \/ last_notification_time = None
    \/ moscow_time > last_notification_time.time + OneMinute

\* Lines 93-116 up to the await of the send or of the sleep
Decide ==
    /\ loop.pc = "decide"
    /\ IF ~loop.results.any_changes
       THEN /\ loop' = [loop EXCEPT !.pc = "sleep", !.moscow_time = mclock,
                                    !.outcome = "no_changes",
                                    !.wake = mclock + CHECK_INTERVAL]
            /\ UNCHANGED dropped
       ELSE IF ShouldSend(loop.last_notification_time, mclock)
       THEN /\ loop' = [loop EXCEPT !.pc = "sending", !.moscow_time = mclock,
                                    !.outcome = "sending"]
            /\ UNCHANGED dropped
       ELSE /\ loop' = [loop EXCEPT !.pc = "sleep", !.moscow_time = mclock,
                                    !.outcome = "skipped",
                                    !.wake = mclock + CHECK_INTERVAL]
            /\ dropped' = dropped \cup Pairs(loop.results.changes_detected)
    /\ UNCHANGED <<previous_hashes, remote, mclock, sent>>
    /\ UNCHANGED <<visits, now, last, pText, pNow, pOut, tasks>>

\* `await telegram.send_message(message)` returns (lines 108-110)
SendSucceeds ==
    /\ loop.pc = "sending"
    /\ sent' = Append(sent, [moscow_time |-> loop.moscow_time,
                             changes |-> Pairs(loop.results.changes_detected)])
    /\ loop' = [loop EXCEPT !.pc = "sleep", !.outcome = "sent",
                            !.last_notification_time = [time |-> loop.moscow_time],
                            !.wake = mclock + CHECK_INTERVAL]
    /\ UNCHANGED <<previous_hashes, remote, mclock, dropped>>
    /\ UNCHANGED <<visits, now, last, pText, pNow, pOut, tasks>>

\* `await telegram.send_message(message)` raises (lines 111-112)
SendFails ==
    /\ loop.pc = "sending"
    /\ loop' = [loop EXCEPT !.pc = "sleep", !.outcome = "send_failed",
                            !.wake = mclock + CHECK_INTERVAL]
    /\ dropped' = dropped \cup Pairs(loop.results.changes_detected)
    /\ UNCHANGED <<previous_hashes, remote, mclock, sent>>
    /\ UNCHANGED <<visits, now, last, pText, pNow, pOut, tasks>>

\* `await asyncio.sleep(Config.CHECK_INTERVAL)` returns (line 143)
Wake ==
    /\ loop.pc = "sleep"
    /\ mclock >= loop.wake
    /\ loop' = [loop EXCEPT !.pc = "check"]
    /\ UNCHANGED <<previous_hashes, remote, mclock, sent, dropped>>
    /\ UNCHANGED <<visits, now, last, pText, pNow, pOut, tasks>>

\* Time passes while the loop awaits the fetch, the send or the sleep.
Advance ==
    /\ loop.pc # "decide"
    /\ \E d \in Delays : mclock + d <= MaxClock /\ mclock' = mclock + d
    /\ UNCHANGED <<previous_hashes, remote, loop, sent, dropped>>
    /\ UNCHANGED <<visits, now, last, pText, pNow, pOut, tasks>>

\* An endpoint starts to serve other content.
RemoteChange ==
    /\ loop.pc # "decide"
    /\ \E e \in Endpoints, h \in Hashes :
          h # remote[e] /\ remote' = [remote EXCEPT ![e] = h]
    /\ UNCHANGED <<previous_hashes, mclock, loop, sent, dropped>>
    /\ UNCHANGED <<visits, now, last, pText, pNow, pOut, tasks>>

MonitorNext ==
    \/ check_all_endpoints
    \/ Decide
    \/ SendSucceeds
    \/ SendFails
    \/ Wake
    \/ Advance
    \/ RemoteChange

MonitorSpec == Init /\ [][MonitorNext]_vars

(***************************************************************************)
(* Properties of the visit store (checked under Spec).                     *)
(***************************************************************************)
\* Same start and same end, compared field by field.
SameStartEnd(a, b) == a.start_time = b.start_time /\ a.end_time = b.end_time

LastIsAdd == last.op = "add_visit"
LastIsList == last.op = "get_upcoming_visits"

\* C1: the store never holds two visits with the same (start_time, end_time),
\* and add_visit inserts the parsed visit if and only if no stored visit has
\* the same start and the same end, whatever the texts and ids are.
C1_NoDuplicateVisits ==
    /\ \A a, b \in visits : SameStartEnd(a, b) => a = b
    /\ (LastIsAdd /\ last.visit_info # None) =>
          /\ last.path = "added" <=>
                ~\E v \in last.before : SameStartEnd(v, last.visit_info)
          /\ last.path = "added" =>
                /\ last.result \notin last.before
                /\ visits = last.before \cup {last.result}
                /\ SameStartEnd(last.result, last.visit_info)
          /\ last.path # "added" => visits = last.before

\* A text is rejected because a visit with another text and another id has
\* the same start and end.
C1_Witness ==
    /\ LastIsAdd /\ last.path = "duplicate"
    /\ \E v \in visits :
          /\ SameStartEnd(v, last.visit_info)
          /\ v.original_text # last.text
          /\ v.id # <<last.visit_info.start_time, last.visit_info.end_time, last.text>>

\* C2: of two add_visit calls in a row whose texts resolve to the same
\* (start, end), the first returns the new visit, the second is rejected as a
\* duplicate and leaves the size of the store as it was.
C2_AddTwice ==
    /\ [](LastIsAdd /\ last.path = "added" =>
            /\ last.result # None
            /\ last.result \in visits
            /\ Cardinality(visits) = Cardinality(last.before) + 1)
    /\ [][(/\ LastIsAdd /\ last.path = "added"
           /\ last' # last /\ last'.op = "add_visit"
           /\ last'.visit_info # None
           /\ SameStartEnd(last'.visit_info, last.visit_info))
          => (/\ last'.path = "duplicate"
              /\ last'.result = None
              /\ Cardinality(visits') = Cardinality(visits))]_vars

\* The second of two calls with the very same text has been rejected.
C2_Witness ==
    /\ LastIsAdd /\ last.path = "duplicate"
    /\ Cardinality(visits) = Cardinality(last.before)
    /\ \E v \in visits : SameStartEnd(v, last.visit_info) /\ v.original_text = last.text

\* C3: after get_upcoming_visits at time now the store holds exactly the
\* visits it held before whose end is strictly after now, and no visit with
\* end <= now is in the returned list.
C3_Pruning ==
    LastIsList =>
       /\ visits = {v \in last.before : DtLess(last.now, v.end_time)}
       /\ \A v \in last.before :
             DtLeq(v.end_time, last.now) =>
                /\ v \notin visits
                /\ \A i \in 1..Len(last.upcoming) : last.upcoming[i] # v

\* A visit that ends exactly at now has been removed and another one kept.
C3_Witness ==
    /\ LastIsList
    /\ \E v \in last.before : v.end_time = last.now /\ v \notin visits
    /\ visits # {}

\* The visits get_upcoming_visits has to return, from the store it leaves.
Qualifying ==
    {v \in visits : /\ ~DtLess(v.start_time, last.now)
                    /\ ~DtLess(AddDays(last.now, last.days_ahead), v.start_time)}

\* C4: get_upcoming_visits(days_ahead) returns exactly the stored visits with
\* now <= start <= now + days_ahead days, each once, in ascending order of
\* start; the empty list when there is none; a visit that has started and
\* not ended is not returned.
C4_Upcoming ==
    LastIsList =>
       /\ {last.upcoming[i] : i \in 1..Len(last.upcoming)} = Qualifying
       /\ Len(last.upcoming) = Cardinality(Qualifying)
       /\ \A i, j \in 1..Len(last.upcoming) :
             i < j => ~DtLess(last.upcoming[j].start_time, last.upcoming[i].start_time)
       /\ (Qualifying = {} => last.upcoming = <<>>)
       /\ \A v \in visits :
             (DtLess(v.start_time, last.now) /\ DtLess(last.now, v.end_time)) =>
                \A i \in 1..Len(last.upcoming) : last.upcoming[i] # v

\* A visit in progress is kept in the store and left out of the list, which
\* holds another visit.
C4_Witness ==
    /\ LastIsList
    /\ Len(last.upcoming) >= 1
    /\ \E v \in visits : DtLess(v.start_time, last.now) /\ DtLess(last.now, v.end_time)

\* C5: every visit add_visit puts into the store has end strictly after start.
C5_EndAfterStart == \A v \in visits : DtLess(v.start_time, v.end_time)

\* What the caller of add_visit sees: the value returned and the reply of
\* schedule_handler.  A text that does not parse gives None and the
\* "not recognized" reply (lines 302-303 and 107-108).
Seen == [result |-> last.result, reply |-> last.reply]
ParseFailedSeen == [result |-> None, reply |-> "not_recognized"]

\* C6: the result of an add tells ParseFailed, Duplicate and Added apart.
C6_Discriminated ==
    LastIsAdd =>
       /\ last.path = "parse_failed" => Seen = ParseFailedSeen
       /\ last.path = "duplicate" => Seen # ParseFailedSeen
       /\ last.path = "added" => Seen # ParseFailedSeen

\* C7: a parse succeeds only when both a date and a time range are resolved;
\* if either is missing add_visit returns no visit and leaves the store as it
\* was.
C7_BothNeeded ==
    LastIsAdd =>
       /\ last.visit_info # None <=>
             (ResolveDate(last.text, last.now) # None /\ parse_time_range(last.text) # None)
       /\ (ResolveDate(last.text, last.now) = None \/ parse_time_range(last.text) = None) =>
             /\ last.path = "parse_failed"
             /\ last.result = None
             /\ visits = last.before

\* A text with a date and no time is rejected with visits in the store.
C7_Witness ==
    /\ LastIsAdd
    /\ ResolveDate(last.text, last.now) # None
    /\ parse_time_range(last.text) = None
    /\ last.result = None
    /\ visits # {} /\ visits = last.before

(***************************************************************************)
(* Properties of the parser (checked under ParseSpec).                     *)
(***************************************************************************)
\* The date expression the parsed text starts with.
StartsWith(d) == d # <<>> /\ OccursAt(d, pText, 1)

\* The weekday each weekday expression of the inputs names (Monday is 0).
NamedWeekdays ==
    {<<D_pn, 0>>, <<D_vtornik, 1>>, <<D_sredu, 2>>, <<D_cht, 3>>, <<D_pt, 4>>,
     <<D_subbota, 5>>, <<D_vs, 6>>}

DaysFromNow(date) == ToOrdinal(date) - ToOrdinal(pNow)
AtMidnight(date) == date.hour = 0 /\ date.minute = 0 /\ date.second = 0

\* C8: for a text that names a weekday (and has no date with a year) the
\* resolved date falls on that weekday, 1 to 7 days after now's date, at
\* midnight; on the named weekday itself it is the same day of next week.
C8_Weekday ==
    pOut # None =>
       \A e \in NamedWeekdays :
          (StartsWith(e[1]) /\ pOut.absolute = None) =>
             /\ pOut.date # None
             /\ pOut.date = pOut.weekday
             /\ Weekday(pOut.date) = e[2]
             /\ DaysFromNow(pOut.date) >= 1 /\ DaysFromNow(pOut.date) <= 7
             /\ (Weekday(pNow) = e[2] => DaysFromNow(pOut.date) = 7)
             /\ AtMidnight(pOut.date)

\* Today is the named weekday and the date is a week from now.
C8_Witness ==
    /\ pOut # None
    /\ \E e \in NamedWeekdays : StartsWith(e[1]) /\ Weekday(pNow) = e[2]
    /\ pOut.date # None /\ DaysFromNow(pOut.date) = 7

\* The days each relative keyword of the inputs stands for.
RelativeKeywords == {<<D_segodnya, 0>>, <<D_zavtra, 1>>, <<D_poslezavtra, 2>>}

\* C9: a text whose only date expression is a relative keyword resolves,
\* through the whole cascade, to now's date + 0, 1 or 2 days at midnight.
C9_Relative ==
    pOut # None =>
       \A e \in RelativeKeywords :
          StartsWith(e[1]) => pOut.date = Midnight(AddDays(pNow, e[2]))

\* The day and month each bare "D month" expression of the inputs gives.
BareDates ==
    {<<D_12_iyulya, 12, 7>>, <<D_29_fevralya, 29, 2>>, <<D_31_iyunya, 31, 6>>,
     <<D_1_yanvarya, 1, 1>>, <<D_2_iyunya, 2, 6>>}

IsBare(e) == StartsWith(e[1]) /\ ~StartsWith(D_12_iyulya_2025)

\* (month, day) is before now's date / is a date of the year
BeforeToday(month, day) ==
    month < pNow.month \/ (month = pNow.month /\ day < pNow.day)
ExistsIn(year, month, day) ==
    day >= 1 /\ day <= (IF month = 2 THEN (IF IsLeap(year) THEN 29 ELSE 28)
                        ELSE IF month \in {4, 6, 9, 11} THEN 30 ELSE 31)

\* C10 as claimed: the date has the given day and month, in now.year when
\* that date is on or after now's date and in now.year + 1 when it is
\* before; a day and month that is no calendar date gives no result.
C10_YearRule ==
    pOut # None =>
       \A e \in BareDates :
          IsBare(e) =>
             IF ~ExistsIn(pNow.year, e[3], e[2]) THEN pOut.without_year = None
             ELSE IF ~BeforeToday(e[3], e[2])
                  THEN pOut.without_year = Datetime(pNow.year, e[3], e[2], 0, 0, 0)
             ELSE pOut.without_year = Datetime(pNow.year + 1, e[3], e[2], 0, 0, 0)

\* C10 amended: as claimed, and no result when the day and month has passed
\* in now.year and is not a date of now.year + 1 (29 February).
C10_YearRuleAmended ==
    pOut # None =>
       \A e \in BareDates :
          IsBare(e) =>
             IF ~ExistsIn(pNow.year, e[3], e[2]) THEN pOut.without_year = None
             ELSE IF ~BeforeToday(e[3], e[2])
                  THEN pOut.without_year = Datetime(pNow.year, e[3], e[2], 0, 0, 0)
             ELSE IF ExistsIn(pNow.year + 1, e[3], e[2])
                  THEN pOut.without_year = Datetime(pNow.year + 1, e[3], e[2], 0, 0, 0)
             ELSE pOut.without_year = None

\* A date that has passed this year is given in the next year.
C10_Witness ==
    /\ pOut # None
    /\ \E e \in BareDates : IsBare(e) /\ BeforeToday(e[3], e[2])
    /\ pOut.without_year # None
    /\ pOut.without_year.year = pNow.year + 1

\* The day, month and year each "D month YYYY" expression of the inputs gives;
\* three of them stand beside a weekday name or a relative keyword.
AbsoluteDates ==
    {<<D_12_iyulya_2025, 12, 7, 2025>>,
     <<D_v_pt_12_iyulya_2025, 12, 7, 2025>>,
     <<D_12_iyulya_2025_poslezavtra, 12, 7, 2025>>,
     <<D_vo_vtornik_29_fevralya_2024, 29, 2, 2024>>}

\* C11: a text with a valid "D month YYYY" resolves to exactly that day,
\* month and year, whatever now is and whatever weekday name or relative
\* keyword the text also holds: the absolute-date strategy comes first.
C11_AbsoluteFirst ==
    pOut # None =>
       \A e \in AbsoluteDates :
          StartsWith(e[1]) =>
             /\ pOut.date = Datetime(e[4], e[3], e[2], 0, 0, 0)
             /\ pOut.date = pOut.absolute

\* The text names a weekday that alone resolves to another date, and the
\* absolute date is the result.
C11_Witness ==
    /\ pOut # None
    /\ StartsWith(D_v_pt_12_iyulya_2025)
    /\ pOut.weekday # None
    /\ pOut.weekday # pOut.date
    /\ pOut.date = Datetime(2025, 7, 12, 0, 0, 0)

\* The time expression the parsed text ends with.
TimePartIs(h) == \E d \in DateParts, s \in Separators : pText = d \o s \o h

\* Hours in 0..23 and minutes in 0..59
ValidTimes(start_h, start_m, end_h, end_m) ==
    /\ start_h \in 0..23 /\ start_m \in 0..59
    /\ end_h \in 0..23 /\ end_m \in 0..59

TimeRange(start_h, start_m, end_h, end_m) ==
    [start_hour |-> start_h, start_minute |-> start_m,
     end_hour |-> end_h, end_minute |-> end_m]

\* The range a cascade gives that passes over a matched pattern with an hour
\* or a minute out of range and goes on to the next pattern.
ContinuingCascade(do, short, dash, single) ==
    IF do # None /\ ValidTimes(do.g1, do.g2, do.g3, do.g4)
    THEN TimeRange(do.g1, do.g2, do.g3, do.g4)
    ELSE IF short # None /\ ValidTimes(short.g1, 0, short.g2, 0)
    THEN TimeRange(short.g1, 0, short.g2, 0)
    ELSE IF dash # None /\ ValidTimes(dash.g1, dash.g2, dash.g3, dash.g4)
    THEN TimeRange(dash.g1, dash.g2, dash.g3, dash.g4)
    ELSE SingleTimeRange(single)

\* C12: a range pattern that matches with an hour outside 0..23 or a minute
\* outside 0..59 is rejected and the cascade goes on to the next pattern;
\* time resolution fails only when the single time point fails too.
C12_CascadeContinues ==
    pOut # None =>
       pOut.time_range = ContinuingCascade(pOut.match_do, pOut.match_short,
                                           pOut.match_dash, pOut.single_time)

\* The start and end each dash-form expression of the inputs states.
DashTimes == {<<H_1630_1730, 16, 30, 17, 30>>, <<H_0915_1045, 9, 15, 10, 45>>}

\* C13: a text whose time expression is "H1:M1-H2:M2" resolves to start H1:M1
\* and end H2:M2 on the resolved date; at Monday 2025-06-02 10:00
\* "12 iyulya, 16:30-17:30" gives 2025-07-12 16:30 to 17:30.
C13_DashForm ==
    pOut # None =>
       /\ \A e \in DashTimes :
             TimePartIs(e[1]) =>
                /\ pOut.time_range = TimeRange(e[2], e[3], e[4], e[5])
                /\ pOut.date # None =>
                      /\ pOut.visit_info # None
                      /\ pOut.visit_info.start_time = WithTime(pOut.date, e[2], e[3])
                      /\ pOut.visit_info.end_time = WithTime(pOut.date, e[4], e[5])
       /\ (pText = D_12_iyulya \o <<44, 32>> \o H_1630_1730 /\ pNow = ClockStart) =>
             /\ pOut.visit_info # None
             /\ pOut.visit_info.start_time = Datetime(2025, 7, 12, 16, 30, 0)
             /\ pOut.visit_info.end_time = Datetime(2025, 7, 12, 17, 30, 0)

\* The hours each "ot H1 do H2" expression of the inputs states.
OtDoTimes == {<<H_ot_16_do_17, 16, 17>>, <<H_ot_9_do_11, 9, 11>>}

\* C14: "segodnya" with a range "ot H1 do H2" of whole hours gives a visit on
\* now's date from H1:00 to H2:00; at Monday 2025-06-02 10:00
\* "Segodnya ot 16 do 17" gives 2025-06-02 16:00 to 17:00.
C14_OtDo ==
    pOut # None =>
       /\ \A e \in OtDoTimes :
             (StartsWith(D_segodnya) /\ TimePartIs(e[1])) =>
                /\ pOut.visit_info # None
                /\ pOut.visit_info.start_time = WithTime(Midnight(pNow), e[2], 0)
                /\ pOut.visit_info.end_time = WithTime(Midnight(pNow), e[3], 0)
       /\ (pText = D_segodnya \o <<32>> \o H_ot_16_do_17 /\ pNow = ClockStart) =>
             /\ pOut.visit_info # None
             /\ pOut.visit_info.start_time = Datetime(2025, 6, 2, 16, 0, 0)
             /\ pOut.visit_info.end_time = Datetime(2025, 6, 2, 17, 0, 0)

\* The hour and minute each single-time expression of the inputs states.
SingleTimes ==
    {<<H_v_2330, 23, 30>>, <<H_v_10, 10, 0>>, <<H_1000, 10, 0>>,
     <<H_v_2359, 23, 59>>, <<H_vremya_2245, 22, 45>>, <<H_v_0, 0, 0>>}

NoRangeMatched ==
    pOut.match_do = None /\ pOut.match_short = None /\ pOut.match_dash = None

\* C15: when only a single time point H:M is found, the range starts at H:M
\* and ends at (H+1):M for H in 0..22; for H = 23 it ends at 23:59 of the
\* same day.
C15_OneHour ==
    pOut # None =>
       \A e \in SingleTimes :
          TimePartIs(e[1]) =>
             /\ NoRangeMatched
             /\ pOut.single_time = [hour |-> e[2], minute |-> e[3]]
             /\ pOut.time_range =
                   IF e[2] <= 22 THEN TimeRange(e[2], e[3], e[2] + 1, e[3])
                   ELSE TimeRange(e[2], e[3], 23, 59)
             /\ pOut.visit_info # None =>
                   /\ pOut.visit_info.start_time = WithTime(pOut.date, e[2], e[3])
                   /\ pOut.visit_info.end_time.day = pOut.visit_info.start_time.day
                   /\ pOut.visit_info.end_time.month = pOut.visit_info.start_time.month
                   /\ pOut.visit_info.end_time.year = pOut.visit_info.start_time.year

\* "v 23:30" has given 23:30 to 23:59 on the resolved date.
C15_Witness ==
    /\ pOut # None
    /\ TimePartIs(H_v_2330)
    /\ pOut.visit_info # None
    /\ pOut.time_range = TimeRange(23, 30, 23, 59)
    /\ pOut.visit_info.end_time = WithTime(pOut.date, 23, 59)

(***************************************************************************)
(* Further properties of the visit store (checked under Spec).             *)
(***************************************************************************)
\* The visits of a store whose end is at or before the clock reading t.
Expired(store, t) == {v \in store : DtLeq(v.end_time, t)}

\* C16: get_visit_count returns the number of stored visits and leaves the
\* store as it is, expired visits included; add_visit removes nothing, so
\* expired visits stay (and are counted in its reply) until the next
\* get_upcoming_visits.
C16_CountWithoutPruning ==
    /\ last.op = "get_visit_count" =>
          /\ visits = last.before
          /\ last.count = Cardinality(last.before)
    /\ LastIsAdd =>
          /\ last.before \subseteq visits
          /\ Expired(last.before, last.now) \subseteq visits
          /\ last.path = "added" => last.count = Cardinality(visits)

\* A count that includes a visit which has ended.
C16_Witness ==
    /\ last.op = "get_visit_count"
    /\ Expired(visits, last.now) # {}
    /\ last.count = Cardinality(visits)
    /\ last.count > Cardinality(visits \ Expired(visits, last.now))

(***************************************************************************)
(* Properties of the handlers in the event loop (checked under LoopSpec).  *)
(***************************************************************************)
\* Handler i inserts a visit in this step.
Inserts(i) ==
    /\ tasks[i].state = "pending"
    /\ tasks'[i].state = "replying"
    /\ tasks'[i].path = "added"

\* C17: whatever the interleaving of pending /schedule and /list handlers,
\* the store never holds two visits with the same (start, end), and a
\* handler inserts a visit only when no visit with that start and end is in
\* the store at that very step, so no two handlers both insert one.
C17_NoDuplicateUnderInterleaving ==
    /\ [](\A a, b \in visits : SameStartEnd(a, b) => a = b)
    /\ [][\A i \in 1..MaxTasks :
             Inserts(i) =>
                /\ ~\E v \in visits : SameStartEnd(v, tasks'[i].result)
                /\ visits' = visits \cup {tasks'[i].result}
                /\ \A j \in 1..MaxTasks :
                      (j # i /\ tasks[j].state = "replying" /\ tasks[j].path = "added"
                       /\ tasks[j].result \in visits) =>
                         ~SameStartEnd(tasks[j].result, tasks'[i].result)]_vars

\* Two handlers were pending together with texts for the same slot; one
\* has inserted and the other has been rejected, both still awaiting their
\* replies.
C17_Witness ==
    \E i, j \in 1..MaxTasks :
       /\ i # j
       /\ tasks[i].state = "replying" /\ tasks[i].path = "added"
       /\ tasks[j].state = "replying" /\ tasks[j].path = "duplicate"
       /\ tasks[i].text # tasks[j].text
       /\ tasks[i].result \in visits

(***************************************************************************)
(* Properties of the endpoint monitor (checked under MonitorSpec).         *)
(***************************************************************************)
\* The endpoints the last check reported as changed.
Reported == {c.endpoint : c \in loop.results.changes_detected}

\* What the last check fetched for endpoint e.
FetchedFor(e) == loop.results.endpoints[e]

\* C18: an endpoint is reported as changed if and only if its fetch
\* succeeded, a hash was stored for it before and that hash differs from the
\* current one; a first successful observation stores the hash and reports
\* nothing; a failed fetch reports nothing and leaves the stored hash;
\* any_changes is true exactly when a change is reported.
C18_ChangeReport ==
    /\ \A e \in Endpoints :
          /\ e \in Reported <=>
                (/\ FetchedFor(e).success
                 /\ loop.before[e] # NoHash
                 /\ loop.before[e] # FetchedFor(e).content_hash)
          /\ (FetchedFor(e).success /\ loop.before[e] = NoHash) =>
                /\ e \notin Reported
                /\ previous_hashes[e] = FetchedFor(e).content_hash
          /\ ~FetchedFor(e).success =>
                /\ e \notin Reported
                /\ previous_hashes[e] = loop.before[e]
    /\ loop.results.any_changes <=> loop.results.changes_detected # {}

\* One check has reported a change on one endpoint, stored the first hash
\* of the other without reporting, after an earlier failed fetch of it.
C18_Witness ==
    /\ loop.pc = "decide"
    /\ loop.results.any_changes
    /\ \E e \in Endpoints :
          /\ e \in Reported
          /\ loop.before[e] # NoHash
    /\ \E e \in Endpoints :
          /\ e \notin Reported
          /\ FetchedFor(e).success
          /\ loop.before[e] = NoHash

\* The times recorded for the notifications sent.
SentTimes == {sent[k].moscow_time : k \in 1..Len(sent)}

\* C19: a change notification is sent only when none has been sent before
\* or the Moscow time of the iteration is more than one minute after the
\* time recorded for the last one sent; so the times of any two sent
\* notifications are more than one minute apart; a failed send leaves the
\* recorded time as it was.
C19_Throttle ==
    /\ [](/\ loop.last_notification_time = None <=> sent = <<>>
          /\ sent # <<>> =>
                loop.last_notification_time = [time |-> sent[Len(sent)].moscow_time]
          /\ \A i, j \in 1..Len(sent) :
                i < j => sent[j].moscow_time > sent[i].moscow_time + OneMinute)
    /\ [][(loop.pc = "decide" /\ loop'.pc = "sending") =>
             \/ sent = <<>>
             \/ mclock > sent[Len(sent)].moscow_time + OneMinute]_vars
    /\ [][(loop.pc = "sending" /\ loop'.outcome = "send_failed") =>
             /\ loop'.last_notification_time = loop.last_notification_time
             /\ sent' = sent]_vars

\* A notification has been sent, a change found exactly one minute after it
\* has been skipped, and a second notification has been sent later.
C19_Witness ==
    /\ Len(sent) = 2
    /\ \E d \in dropped : TRUE
    /\ loop.outcome = "sent"
    /\ sent[2].moscow_time = sent[1].moscow_time + OneMinute + 1

\* C20: when a change is detected and its notification is skipped or fails,
\* the stored hash is already the new one; a later check that fetches the
\* same content reports no change for the endpoint, and no notification
\* sent later carries that change.
C20_LostChange ==
    /\ [](/\ \A c \in loop.results.changes_detected :
                loop.pc \in {"decide", "sending"} =>
                   previous_hashes[c.endpoint] = c.current_hash
          /\ \A d \in dropped : previous_hashes[d.endpoint] = d.hash)
    /\ [][(loop.pc = "check" /\ loop'.pc = "decide") =>
             \A d \in dropped :
                (/\ loop'.results.endpoints[d.endpoint].success
                 /\ loop'.results.endpoints[d.endpoint].content_hash = d.hash) =>
                   /\ \A c \in loop'.results.changes_detected :
                         c.endpoint # d.endpoint
                   /\ d \in dropped']_vars
    /\ [][(loop.pc = "sending" /\ loop'.outcome = "sent") =>
             \A d \in dropped : d \notin sent'[Len(sent')].changes]_vars

\* A change was skipped by the throttle; a later check fetched the same
\* content and reported nothing, and the change is in no notification.
C20_Witness ==
    /\ loop.pc = "sleep" /\ loop.outcome = "no_changes"
    /\ \E d \in dropped :
          /\ FetchedFor(d.endpoint).success
          /\ FetchedFor(d.endpoint).content_hash = d.hash
          /\ \A k \in 1..Len(sent) : d \notin sent[k].changes

====
